---- MODULE Spec2Model ----
(***************************************************************************)
(* A model of find_strong_stocks_action.py: the TWSE snapshot fetch, the   *)
(* universe builder (extract_top300), the strength evaluator               *)
(* (is_strong_stock) and the single run of main().                         *)
(*                                                                         *)
(* Text is a sequence of one-character strings.  Chinese labels and        *)
(* keywords are written with one pinyin token per character.  Numbers are  *)
(* integers; a float that is NaN is the record NaN.  Comparisons of        *)
(* averages and percentages are made exactly, by cross-multiplication.     *)
(***************************************************************************)
EXTENDS Integers, Sequences, FiniteSets, TLC

VARIABLES
    \* ---- one run of main()
    pc,            \* position of main(): start, parse, loop, report, write, done, crashed
    js,            \* what the snapshot request delivers
    df_raw,        \* fetch_twse_table()'s first result
    err,           \* the fatal failure main() met: none, fetch, schema, columns
    df_top,        \* extract_top300()'s first result
    idx,           \* the loop's position in df_top (1-based)
    verdicts,      \* what is_strong_stock returned for each member, in order
    strong,        \* main()'s list strong
    charts,        \* main()'s list charts
    sent,          \* the texts handed to telegram_send_text, in order
    photos,        \* the chart paths handed to telegram_send_photo, in order
    files,         \* artifact files written
    failedWrites,  \* artifact writes that failed
    fetches,       \* number of history downloads made
    \* ---- the evaluator alone
    resp,          \* what yf.download delivers
    verdict,       \* is_strong_stock's result for resp
    epc,
    \* ---- the universe builder alone
    raw,           \* the raw table
    uni,           \* extract_top300's universe for raw
    upc,
    \* ---- cell normalisation alone
    cell,          \* a raw cell
    num,           \* to_num(cell)
    price,         \* to_price(cell)
    cpc

vars == << pc, js, df_raw, err, df_top, idx, verdicts, strong, charts, sent,
           photos, files, failedWrites, fetches,
           resp, verdict, epc, raw, uni, upc, cell, num, price, cpc >>

mainVars == << pc, js, df_raw, err, df_top, idx, verdicts, strong, charts, sent,
               photos, files, failedWrites, fetches >>
evalVars == << resp, verdict, epc >>
uniVars == << raw, uni, upc >>
cellVars == << cell, num, price, cpc >>

\* ------------------------------------------------------------------ bounds

\* Longest raw cell drawn for the cell-normalisation specification.
MaxCellLen == 3

\* ------------------------------------------------------------------ text

Min(a, b) == IF a < b THEN a ELSE b

Max(a, b) == IF a > b THEN a ELSE b

RECURSIVE Replace(_, _, _)
\* str.replace(pat, rep): occurrences of pat, left to right, not overlapping.
Replace(s, pat, rep) ==
    IF Len(s) < Len(pat) THEN s
    ELSE IF SubSeq(s, 1, Len(pat)) = pat
         THEN rep \o Replace(SubSeq(s, Len(pat) + 1, Len(s)), pat, rep)
         ELSE << Head(s) >> \o Replace(Tail(s), pat, rep)

RECURSIVE LStrip(_)
LStrip(s) == IF s # << >> /\ Head(s) = " " THEN LStrip(Tail(s)) ELSE s

RECURSIVE RStrip(_)
RStrip(s) ==
    IF s # << >> /\ s[Len(s)] = " " THEN RStrip(SubSeq(s, 1, Len(s) - 1)) ELSE s

\* str.strip()
Strip(s) == RStrip(LStrip(s))

\* x in s, for strings
Contains(s, sub) ==
    \E k \in 0..(Len(s) - Len(sub)) : SubSeq(s, k + 1, k + Len(sub)) = sub

Digits == {"0", "1", "2", "3", "4", "5", "6", "7", "8", "9"}

DigitVal(c) ==
    CASE c = "0" -> 0 [] c = "1" -> 1 [] c = "2" -> 2 [] c = "3" -> 3
      [] c = "4" -> 4 [] c = "5" -> 5 [] c = "6" -> 6 [] c = "7" -> 7
      [] c = "8" -> 8 [] c = "9" -> 9

RECURSIVE DecVal(_)
DecVal(s) == IF s = << >> THEN 0 ELSE 10 * DecVal(SubSeq(s, 1, Len(s) - 1)) + DigitVal(s[Len(s)])

\* A float that is a number, and the float NaN.
Num(v) == [nan |-> FALSE, val |-> v]

NaN == [nan |-> TRUE, val |-> 0]

\* float(s) for text over digits, "-", "," and letters: an optional sign and
\* at least one digit, with blanks allowed around; anything else raises.
PyFloat(s) ==
    LET t == Strip(s)
        neg == t # << >> /\ Head(t) = "-"
        d == IF neg THEN Tail(t) ELSE t
    IN  IF d # << >> /\ \A k \in 1..Len(d) : d[k] \in Digits
        THEN [ok |-> TRUE, val |-> IF neg THEN 0 - DecVal(d) ELSE DecVal(d)]
        ELSE [ok |-> FALSE, val |-> 0]

\* str(x).replace(",","").replace("--","0").strip()
CleanCell(x) == Strip(Replace(Replace(x, << "," >>, << >>), << "-", "-" >>, << "0" >>))

to_num(x) ==
    LET f == PyFloat(CleanCell(x))
    IN  IF f.ok THEN Num(f.val) ELSE Num(0)

to_price(x) ==
    LET f == PyFloat(CleanCell(x))
    IN  IF f.ok THEN Num(f.val) ELSE NaN

\* ------------------------------------------------------- universe builder

\* 證券代號, 證券名稱, 成交股數, 收盤價: the substrings looked for in the labels.
L_code == << "zheng4", "quan4", "dai4", "hao4" >>

L_name == << "zheng4", "quan4", "ming2", "cheng1" >>

L_vol == << "cheng2", "jiao1", "gu3", "shu4" >>

L_close == << "shou1", "pan2", "jia4" >>

\* exclude_name_keywords, in the source's order.
exclude_name_keywords ==
    << << "E", "T", "F" >>, << "quan2", "zheng4" >>, << "D", "R" >>,
       << "shou4", "yi4", "zheng4", "quan4" >>, << "ji1", "jin1" >>,
       << "fu4", "bang1" >>, << "yuan2", "da4" >>, << "guo2", "tai4" >>,
       << "qun2", "yi4" >>, << "yong3", "feng1" >>, << "tai2", "xin1" >>,
       << "yin2", "hang2" >>, << "jin1", "kong4" >>, << "jin1", "rong2" >>,
       << "zheng4", "quan4" >>, << "bao3", "xian3" >> >>

\* head(300): the cut-off of the universe, scaled down so that the raw
\* tables of the model are longer than it.
TopN == 3

\* str(None): the cell pandas pads a short row with.
NoneCell == << "N", "o", "n", "e" >>

\* The last column whose stripped label contains sub; 0 when there is none.
ColOf(fields, sub) ==
    LET hits == {k \in 1..Len(fields) : Contains(Strip(fields[k]), sub)}
    IN  IF hits = {} THEN 0 ELSE CHOOSE k \in hits : \A j \in hits : j <= k

col_map(fields) ==
    [code |-> ColOf(fields, L_code), name |-> ColOf(fields, L_name),
     vol |-> ColOf(fields, L_vol), close |-> ColOf(fields, L_close)]

MissingColumns(fields) ==
    LET m == col_map(fields)
    IN  m.code = 0 \/ m.name = 0 \/ m.vol = 0 \/ m.close = 0

CellAt(row, k) == IF k <= Len(row) THEN row[k] ELSE NoneCell

RECURSIVE StripTags(_)
\* str.replace(r"<.*?>", "", regex=True): from each "<" to the nearest ">".
StripTags(s) ==
    IF s = << >> THEN s
    ELSE IF Head(s) = "<" /\ \E k \in 2..Len(s) : s[k] = ">"
         THEN LET k == CHOOSE j \in 2..Len(s) :
                           s[j] = ">" /\ \A i \in 2..(j - 1) : s[i] # ">"
              IN  StripTags(SubSeq(s, k + 1, Len(s)))
         ELSE << Head(s) >> \o StripTags(Tail(s))

\* One row after the column selection and the normalisation of its cells.
Normalise(fields, row) ==
    LET m == col_map(fields)
        v == to_num(CellAt(row, m.vol))
    IN  [code |-> Strip(CellAt(row, m.code)),
         name |-> Strip(StripTags(CellAt(row, m.name))),
         vol |-> v,
         close |-> to_price(CellAt(row, m.close))]

Excluded(name) ==
    \E k \in 1..Len(exclude_name_keywords) : Contains(name, exclude_name_keywords[k])

\* The rows left by the exclusion mask, in table order.
PostExclusion(df) ==
    LET all == [k \in 1..Len(df.rows) |-> Normalise(df.fields, df.rows[k])]
    IN  SelectSeq(all, LAMBDA r : ~Excluded(r.name))

IsDescending(s) == \A k \in 1..(Len(s) - 1) : s[k].vol.val >= s[k + 1].vol.val

RemoveAt(s, k) == SubSeq(s, 1, k - 1) \o SubSeq(s, k + 1, Len(s))

RECURSIVE SortOutcomes(_)
\* sort_values(by volume, ascending=False) with the default kind, quicksort,
\* which is not stable: every descending arrangement of the rows.
SortOutcomes(s) ==
    IF s = << >> THEN {<< >>}
    ELSE LET top == {k \in 1..Len(s) : \A j \in 1..Len(s) : s[j].vol.val <= s[k].vol.val}
         IN  UNION {{<< s[k] >> \o t : t \in SortOutcomes(RemoveAt(s, k))} : k \in top}

Head300(s) == SubSeq(s, 1, Min(TopN, Len(s)))

\* round(vol / 1000.0, 3) in thousandths of a lot: vol is whole, so the
\* quotient has at most three decimals and the rounding keeps it.
WithLots(r) ==
    [code |-> r.code, name |-> r.name, vol |-> r.vol, close |-> r.close,
     lots_milli |-> (r.vol.val * 1000) \div 1000]

\* Every universe extract_top300 may return for a table with its four columns.
extract_top300(df) ==
    {[k \in 1..Len(Head300(t)) |-> WithLots(Head300(t)[k])] :
        t \in SortOutcomes(PostExclusion(df))}

\* ------------------------------------------------------------- evaluator

\* len(data) < 10
MinBars == 10

Closes(data) == [k \in 1..Len(data) |-> data[k].close.val]

Volumes(data) == [k \in 1..Len(data) |-> data[k].volume]

RECURSIVE SumRange(_, _, _)
SumRange(s, a, b) == IF a > b THEN 0 ELSE s[a] + SumRange(s, a + 1, b)

\* rolling(w).mean() at row k: defined once k >= w; the window's sum then.
WindowDefined(k, w) == k >= w

WindowSum(s, k, w) == SumRange(s, k - w + 1, k)

RECURSIVE MaxRange(_, _, _)
MaxRange(s, a, b) == IF a >= b THEN s[b] ELSE Max(s[a], MaxRange(s, a + 1, b))

\* data.dropna(subset=["Close"])
DropNaClose(bars) == SelectSeq(bars, LAMBDA b : ~b.close.nan)

\* The history check with the threshold off by one.
TooShort_mut(data) == Len(data) < MinBars - 1

TooShort(data) == Len(data) < MinBars

cond_vols_up(data) ==
    LET v == Volumes(data)
        n == Len(data)
    IN  n >= 3 /\ v[n - 2] < v[n - 1] /\ v[n - 1] < v[n]

\* Volume.iloc[-2] > MA5_vol.iloc[-2] * 2
cond_yesterday_vs_ma5(data) ==
    LET v == Volumes(data)
        n == Len(data)
    IN  WindowDefined(n - 1, 5) /\ 5 * v[n - 1] > 2 * WindowSum(v, n - 1, 5)

cond_close_above_ma5(data) ==
    LET c == Closes(data)
        n == Len(data)
    IN  WindowDefined(n, 5) /\ 5 * c[n] > WindowSum(c, n, 5)

ten_high(data) == MaxRange(Closes(data), Max(1, Len(data) - 9), Len(data))

\* close_today >= ten_high or close_today >= ten_high * 0.95
cond_close_new10(data) ==
    LET c == Closes(data)[Len(data)]
    IN  c >= ten_high(data) \/ 100 * c >= 95 * ten_high(data)

\* (close_today - prev_close) / prev_close * 100.0 > 3.0, prices positive
cond_pct(data) ==
    LET c == Closes(data)
        n == Len(data)
    IN  100 * (c[n] - c[n - 1]) > 3 * c[n - 1]

\* round(pct, 2) in hundredths of a percent, ties to even.
pct_rounded(data) ==
    LET c == Closes(data)
        n == Len(data)
        a == 10000 * (c[n] - c[n - 1])
        d == c[n - 1]
        q == a \div d
        r == a % d
    IN  IF 2 * r < d THEN q
        ELSE IF 2 * r > d THEN q + 1
        ELSE IF q % 2 = 0 THEN q ELSE q + 1

Conditions(data) ==
    [cond_vols_up |-> cond_vols_up(data),
     cond_yesterday_vs_ma5 |-> cond_yesterday_vs_ma5(data),
     cond_close_above_ma5 |-> cond_close_above_ma5(data),
     cond_close_new10 |-> cond_close_new10(data),
     cond_pct |-> cond_pct(data),
     pct |-> pct_rounded(data)]

\* The verdict with the near-high condition left out of the conjunction.
Passed_mut(r) ==
    /\ r.cond_vols_up
    /\ r.cond_yesterday_vs_ma5
    /\ r.cond_close_above_ma5
    /\ r.cond_pct

\* all([...]) over the five conditions
Passed(r) ==
    /\ r.cond_vols_up
    /\ r.cond_yesterday_vs_ma5
    /\ r.cond_close_above_ma5
    /\ r.cond_close_new10
    /\ r.cond_pct

NoHist == [some |-> FALSE, bars |-> << >>]

Diagnostic(tag, hist) == [passed |-> FALSE, rkind |-> "str", reason |-> tag, hist |-> hist]

\* The verdict's reason is the diagnostic text tag.
IsTag(v, tag) == v.rkind = "str" /\ v.reason = tag

\* is_strong_stock for what the provider answers: r.raises (the download
\* raises), r.none (it returns None), else a frame with or without the Close
\* and Volume columns and with r.bars as rows.
is_strong_stock(r) ==
    IF r.raises THEN Diagnostic("error", NoHist)
    ELSE IF r.none \/ r.bars = << >> \/ ~r.hasClose THEN Diagnostic("no-data", NoHist)
    ELSE LET data == DropNaClose(r.bars)
         IN  IF ~r.hasVolume THEN Diagnostic("no-volume", NoHist)
             ELSE IF TooShort(data)
                  THEN Diagnostic("short-history", [some |-> TRUE, bars |-> data])
                  ELSE [passed |-> Passed(Conditions(data)), rkind |-> "dict",
                        reason |-> Conditions(data),
                        hist |-> [some |-> TRUE, bars |-> data]]

\* ------------------------------------------------- values of idle parts

MainIdle ==
    /\ pc = "idle" /\ js = "none" /\ df_raw = "none" /\ err = "none"
    /\ df_top = << >> /\ idx = 0 /\ verdicts = << >> /\ strong = << >>
    /\ charts = << >> /\ sent = << >> /\ photos = << >> /\ files = {}
    /\ failedWrites = {} /\ fetches = 0

EvalIdle == resp = "none" /\ verdict = "none" /\ epc = "idle"

UniIdle == raw = "none" /\ uni = << >> /\ upc = "idle"

CellIdle == cell = << >> /\ num = NaN /\ price = NaN /\ cpc = "idle"

\* ---------------------------------------------- cell normalisation alone

CellAlphabet == {"0", "1", ",", "-", " ", "x"}

Cells == UNION {[1..n -> CellAlphabet] : n \in 0..MaxCellLen}

InitCells ==
    /\ cell \in Cells /\ num = NaN /\ price = NaN /\ cpc = "raw"
    /\ MainIdle /\ EvalIdle /\ UniIdle

\* df[...].apply(to_num) and df[...].apply(to_price) on one cell
NormaliseCell ==
    /\ cpc = "raw"
    /\ num' = to_num(cell)
    /\ price' = to_price(cell)
    /\ cpc' = "done"
    /\ UNCHANGED << cell, mainVars, evalVars, uniVars >>

NextCells == NormaliseCell

SpecCells == InitCells /\ [][NextCells]_vars

\* ------------------------------------------------ universe builder alone

\* Longest raw table drawn for the universe-builder specification.
MaxRows == 4

TwseFields == << L_code, L_name, L_vol, L_close >>

\* Rows of the raw table: code, name, traded shares, closing price.
RowChoices ==
    { << << "1" >>, << "tai2", "ji1", "dian4" >>, << "2", ",", "0" >>, << "5" >> >>,
      << << "2" >>, << "hong2", "hai3" >>, << "2", "0" >>, << "-", "-" >> >>,
      << << " ", "3" >>, << "lian2", "fa1" >>, << "5", "0" >>, << "7" >> >>,
      << << "4" >>, << "yuan2", "da4", "E", "T", "F" >>, << "9", "0" >>, << "8" >> >>,
      << << "5" >>, << "<", "b", ">", "yin2", "<", "/", "b", ">", "hang2" >>,
         << "7", "0" >>, << "x" >> >>,
      << << "6" >>, << "chang2", "rong2", " " >>, << "-", "1" >>, << "9" >> >> }

RawTables ==
    {[fields |-> TwseFields, rows |-> r] :
        r \in UNION {[1..n -> RowChoices] : n \in 0..MaxRows}}

InitUniverse ==
    /\ raw \in RawTables /\ uni = << >> /\ upc = "raw"
    /\ MainIdle /\ EvalIdle /\ CellIdle

\* extract_top300(df_raw) on a table that has the four columns
BuildUniverse ==
    /\ upc = "raw"
    /\ uni' \in extract_top300(raw)
    /\ upc' = "done"
    /\ UNCHANGED << raw, mainVars, evalVars, cellVars >>

NextUniverse == BuildUniverse

SpecUniverse == InitUniverse /\ [][NextUniverse]_vars

\* ------------------------------------------------------- evaluator alone

\* Most bars with a close, and most bars without one, in a drawn series.
MaxBars == 11

MaxNaNBars == 2

Bar(c, v) == [close |-> Num(c), volume |-> v]

NaNBar == [close |-> NaN, volume |-> 10]

\* A series of n bars with a close: quiet bars at close b and volume 10, a
\* first bar at close h, and the last two bars (100, v2) and (c1, v1); m bars
\* without a close follow the first bar.
SeriesOf(n, b, h, c1, v2, v1, m) ==
    LET valid == [k \in 1..n |->
                    IF k = n THEN Bar(c1, v1)
                    ELSE IF k = n - 1 THEN Bar(100, v2)
                    ELSE IF k = 1 /\ n >= 4 THEN Bar(h, 10)
                    ELSE Bar(b, 10)]
        gaps == [k \in 1..m |-> NaNBar]
    IN  IF n = 0 THEN gaps ELSE << valid[1] >> \o gaps \o Tail(valid)

Frame(hc, hv, bars) ==
    [raises |-> FALSE, none |-> FALSE, hasClose |-> hc, hasVolume |-> hv, bars |-> bars]

Raises == [raises |-> TRUE, none |-> FALSE, hasClose |-> FALSE, hasVolume |-> FALSE, bars |-> << >>]

ReturnsNone == [raises |-> FALSE, none |-> TRUE, hasClose |-> FALSE, hasVolume |-> FALSE, bars |-> << >>]

Responses ==
    {Raises, ReturnsNone} \cup
    {Frame(hc, hv, SeriesOf(n, b, h, c1, v2, v1, m)) :
        hc \in BOOLEAN, hv \in BOOLEAN, n \in 0..MaxBars, b \in {100, 106},
        h \in {100, 120}, c1 \in {98, 103, 104}, v2 \in {20, 30}, v1 \in {30, 40},
        m \in 0..MaxNaNBars}

InitEval ==
    /\ resp \in Responses /\ verdict = "none" /\ epc = "fetched"
    /\ MainIdle /\ UniIdle /\ CellIdle

\* is_strong_stock(code, name) on the provider's answer
Evaluate ==
    /\ epc = "fetched"
    /\ verdict' = is_strong_stock(resp)
    /\ epc' = "done"
    /\ UNCHANGED << resp, mainVars, uniVars, cellVars >>

NextEval == Evaluate

SpecEval == InitEval /\ [][NextEval]_vars

\* ------------------------------------------------------ one run of main()

\* Most values in the payload beside the top-level pair, and most rows in the
\* payload's table.
MaxNested == 1

MaxMainRows == 5

\* charts[:5]: the cap on the photos, scaled down so that the universes of
\* the model can pass more members than it.
PhotoCap == 2

NoFrame == [some |-> FALSE, fields |-> << >>, rows |-> << >>]

\* A value of the payload: whether it is a dict, whether it has both the keys
\* "data" and "fields", and what they hold.
Pair(fields, data) == [isDict |-> TRUE, has |-> TRUE, fields |-> fields, data |-> data]

NoPairDict == [isDict |-> TRUE, has |-> FALSE, fields |-> << >>, data |-> << >>]

NotDict == [isDict |-> FALSE, has |-> FALSE, fields |-> << >>, data |-> << >>]

RowWidth(data) ==
    IF data = << >> THEN 0
    ELSE CHOOSE w \in {Len(data[k]) : k \in 1..Len(data)} :
             \A k \in 1..Len(data) : Len(data[k]) <= w

\* pd.DataFrame(data, columns=fields) does not raise: the widest row has as
\* many cells as there are field names (shorter rows are padded).
FrameBuilds(v) == v.data = << >> \/ RowWidth(v.data) = Len(v.fields)

FrameOf(v) == [some |-> TRUE, fields |-> v.fields, rows |-> v.data]

\* fetch_twse_table() on what the request delivers: js.ok is false when the
\* request, the status check or the JSON decoding raises.
fetch_twse_table(j) ==
    IF ~j.ok THEN [raised |-> FALSE, df |-> NoFrame, err |-> "fetch"]
    ELSE IF j.isDict /\ j.top.has /\ FrameBuilds(j.top)
         THEN [raised |-> FALSE, df |-> FrameOf(j.top), err |-> "none"]
    ELSE IF ~j.isDict
         THEN [raised |-> TRUE, df |-> NoFrame, err |-> "none"]
    ELSE LET hits == {k \in 1..Len(j.nested) :
                        j.nested[k].isDict /\ j.nested[k].has /\ FrameBuilds(j.nested[k])}
         IN  IF hits = {}
             THEN [raised |-> FALSE, df |-> NoFrame, err |-> "schema"]
             ELSE [raised |-> FALSE,
                   df |-> FrameOf(j.nested[CHOOSE k \in hits : \A i \in hits : k <= i]),
                   err |-> "none"]

Notice(kind, n) == [kind |-> kind, n |-> n]

\* The failure text main() sends on a fatal failure.
FatalNotices(kind) == << Notice(kind, 0) >>

\* The loop over df_top ending one member early.
LoopFinished_mut(i, top) == i >= Len(top)

\* for i,row in df_top.iterrows(): no member is left at position i
LoopFinished(i, top) == i > Len(top)

\* Every chart sent, without the cap.
PhotosToSend_mut(c) == c

\* charts[:5]
PhotosToSend(c) == SubSeq(c, 1, Min(PhotoCap, Len(c)))

UniverseCsv == << "top_volume_stocks.csv" >>

StrongCsv == << "strong_stocks.csv" >>

ChartFile(code) == << "charts" >> \o code

\* Rows of the payload's table, in table order.
MainTableRows ==
    << << << " ", "3" >>, << "lian2", "fa1" >>, << "5", "0" >>, << "7" >> >>,
       << << "4" >>, << "yuan2", "da4", "E", "T", "F" >>, << "9", "0" >>, << "8" >> >>,
       << << "1" >>, << "tai2", "ji1", "dian4" >>, << "2", ",", "0" >>, << "5" >> >>,
       << << "2" >>, << "hong2", "hai3" >>, << "2", "0" >>, << "-", "-" >> >>,
       << << "7" >>, << "da4", "li4" >>, << "3", "0" >>, << "6" >> >>,
       << << "8" >>, << "guang1", "bao3" >>, << "4", "0" >>, << "x" >> >>,
       << << "9" >>, << "zhong1", "gang1" >>, << "1", "0" >>, << "4" >> >> >>

MainTables ==
    {SubSeq(MainTableRows, 1, n) : n \in 0..MaxMainRows} \cup {<< MainTableRows[2] >>}

\* Field names without a closing-price label.
FieldsNoClose == << L_code, L_name, L_vol, << "zui4", "hou4" >> >>

\* A pair whose rows are wider than its field names.
Misfit == Pair(<< L_code, L_name >>, << MainTableRows[1] >>)

GoodPairs == {Pair(f, t) : f \in {TwseFields, FieldsNoClose}, t \in MainTables}

Decoys == UNION {[1..n -> {NotDict, Misfit}] : n \in 0..MaxNested}

FetchFails == [ok |-> FALSE, isDict |-> FALSE, top |-> NoPairDict, nested |-> << >>]

\* A decoded payload that is no mapping: a list, a number, a string, null.
NonMapping == [ok |-> TRUE, isDict |-> FALSE, top |-> NoPairDict, nested |-> << >>]

Mapping(top, nested) == [ok |-> TRUE, isDict |-> TRUE, top |-> top, nested |-> nested]

Payloads ==
    {FetchFails, NonMapping}
    \cup {Mapping(p, << >>) : p \in GoodPairs}
    \cup {Mapping(NoPairDict, d \o tail) :
            d \in Decoys, tail \in {<< >>} \cup {<< p >> : p \in GoodPairs}}
    \cup {Mapping(Misfit, tail) : tail \in {<< >>} \cup {<< p >> : p \in GoodPairs}}

\* What the history provider answers in a run.
MainResponses ==
    { Raises, ReturnsNone,
      Frame(TRUE, FALSE, SeriesOf(10, 100, 100, 104, 30, 40, 0)),
      Frame(TRUE, TRUE, SeriesOf(9, 100, 100, 104, 30, 40, 1)),
      Frame(TRUE, TRUE, SeriesOf(10, 100, 100, 104, 30, 40, 0)),
      Frame(TRUE, TRUE, SeriesOf(10, 100, 100, 103, 30, 40, 0)) }

Init ==
    /\ pc = "start" /\ js \in Payloads /\ df_raw = NoFrame /\ err = "none"
    /\ df_top = << >> /\ idx = 0 /\ verdicts = << >> /\ strong = << >>
    /\ charts = << >> /\ sent = << >> /\ photos = << >> /\ files = {}
    /\ failedWrites = {} /\ fetches = 0
    /\ EvalIdle /\ UniIdle /\ CellIdle

\* main(), from the start text to the outcome of fetch_twse_table()
FetchStep ==
    /\ pc = "start"
    /\ LET r == fetch_twse_table(js)
       IN  IF r.raised
           THEN /\ pc' = "crashed"
                /\ sent' = sent \o << Notice("start", 0) >>
                /\ UNCHANGED << df_raw, err >>
           ELSE IF ~r.df.some
           THEN /\ pc' = "done"
                /\ err' = r.err
                /\ sent' = sent \o << Notice("start", 0) >> \o FatalNotices(r.err)
                /\ UNCHANGED df_raw
           ELSE /\ pc' = "parse"
                /\ df_raw' = r.df
                /\ sent' = sent \o << Notice("start", 0) >>
                /\ UNCHANGED err
    /\ UNCHANGED << js, df_top, idx, verdicts, strong, charts, photos, files,
                    failedWrites, fetches, evalVars, uniVars, cellVars >>

\* main(), from extract_top300() to the text that gives the universe's size
ParseStep ==
    /\ pc = "parse"
    /\ IF MissingColumns(df_raw.fields)
       THEN /\ pc' = "done"
            /\ err' = "columns"
            /\ sent' = sent \o FatalNotices("columns")
            /\ UNCHANGED << df_top, idx, files, failedWrites >>
       ELSE \E t \in extract_top300(df_raw), written \in BOOLEAN :
              IF written
              THEN /\ df_top' = t
                   /\ files' = files \cup {UniverseCsv}
                   /\ sent' = sent \o << Notice("universe", Len(t)) >>
                   /\ idx' = 1
                   /\ pc' = IF LoopFinished(1, t) THEN "report" ELSE "loop"
                   /\ UNCHANGED << err, failedWrites >>
              ELSE /\ failedWrites' = failedWrites \cup {UniverseCsv}
                   /\ pc' = "crashed"
                   /\ UNCHANGED << df_top, idx, files, sent, err >>
    /\ UNCHANGED << js, df_raw, verdicts, strong, charts, photos, fetches,
                    evalVars, uniVars, cellVars >>

\* One pass of the loop of main(): is_strong_stock, and plot_chart on a pass
EvalStep ==
    /\ pc = "loop"
    /\ \E r \in MainResponses, drawn \in BOOLEAN :
         LET code == Strip(df_top[idx].code)
             name == Strip(df_top[idx].name)
             v == is_strong_stock(r)
             plots == v.passed /\ v.hist.some
         IN  /\ verdicts' = Append(verdicts,
                    [code |-> code, passed |-> v.passed, rkind |-> v.rkind,
                     reason |-> v.reason])
             /\ strong' = IF v.passed
                          THEN Append(strong, [code |-> code, name |-> name])
                          ELSE strong
             /\ charts' = IF plots /\ drawn THEN Append(charts, ChartFile(code)) ELSE charts
             /\ files' = IF plots /\ drawn THEN files \cup {ChartFile(code)} ELSE files
             /\ failedWrites' = IF plots /\ ~drawn
                                THEN failedWrites \cup {ChartFile(code)}
                                ELSE failedWrites
    /\ fetches' = fetches + 1
    /\ idx' = idx + 1
    /\ pc' = IF LoopFinished(idx + 1, df_top) THEN "report" ELSE "loop"
    /\ UNCHANGED << js, df_raw, err, df_top, sent, photos, evalVars, uniVars, cellVars >>

\* main() after the loop: the result text and the photos
ReportStep ==
    /\ pc = "report"
    /\ IF strong = << >>
       THEN /\ sent' = sent \o << Notice("none", 0) >>
            /\ UNCHANGED photos
       ELSE /\ sent' = sent \o << Notice("list", Len(strong)) >>
            /\ photos' = PhotosToSend(charts)
    /\ pc' = "write"
    /\ UNCHANGED << js, df_raw, err, df_top, idx, verdicts, strong, charts, files,
                    failedWrites, fetches, evalVars, uniVars, cellVars >>

\* main()'s last statement: strong_stocks.csv, when a member passed
WriteStep ==
    /\ pc = "write"
    /\ IF strong = << >>
       THEN pc' = "done" /\ UNCHANGED << files, failedWrites >>
       ELSE \E written \in BOOLEAN :
              IF written
              THEN /\ files' = files \cup {StrongCsv}
                   /\ pc' = "done"
                   /\ UNCHANGED failedWrites
              ELSE /\ failedWrites' = failedWrites \cup {StrongCsv}
                   /\ pc' = "crashed"
                   /\ UNCHANGED files
    /\ UNCHANGED << js, df_raw, err, df_top, idx, verdicts, strong, charts, sent,
                    photos, fetches, evalVars, uniVars, cellVars >>

Next == FetchStep \/ ParseStep \/ EvalStep \/ ReportStep \/ WriteStep

Spec == Init /\ [][Next]_vars

\* ------------------------------------------------------- claims: the run

\* extract_top300 returned a universe to main().
UniverseBuilt == UniverseCsv \in files

\* C1: once the universe is built, every member is evaluated exactly once,
\* in ranked order; a no-data, no-volume, short-history or provider-error
\* outcome is a verdict with passed = false, and the loop goes on to the
\* next member and ends only after the last.
C1_EveryMemberOnce ==
    UniverseBuilt =>
        /\ Len(verdicts) = (IF pc = "loop" THEN idx - 1 ELSE Len(df_top))
        /\ pc = "loop" => idx <= Len(df_top)
        /\ fetches = Len(verdicts)
        /\ \A k \in 1..Len(verdicts) :
             /\ verdicts[k].code = Strip(df_top[k].code)
             /\ verdicts[k].rkind = "str" => ~verdicts[k].passed

\* The provider raised on the first member, the second had a short history,
\* and the third was still evaluated, and passed.
C1_Witness ==
    /\ pc = "done" /\ UniverseBuilt /\ Len(df_top) = 3 /\ Len(verdicts) = 3
    /\ IsTag(verdicts[1], "error")
    /\ IsTag(verdicts[2], "short-history")
    /\ verdicts[3].passed

\* The decoded payload has no pair, at the top or one level down, that
\* builds a table.
MatchesNeither(j) ==
    /\ j.ok
    /\ ~(j.isDict /\ j.top.has /\ FrameBuilds(j.top))
    /\ ~(j.isDict /\ \E k \in 1..Len(j.nested) :
            j.nested[k].isDict /\ j.nested[k].has /\ FrameBuilds(j.nested[k]))

\* The field names main() hands to extract_top300.
FieldsFound(j) == fetch_twse_table(j).df.fields

\* The snapshot fetch fails, or the universe builder fails: no schema found,
\* or columns missing.
FatalInput(j) ==
    \/ ~j.ok
    \/ MatchesNeither(j)
    \/ (j.ok /\ ~MatchesNeither(j) /\ MissingColumns(FieldsFound(j)))

FailureKinds == {"fetch", "schema", "columns"}

\* C2: when the snapshot fetch or the universe builder fails, the run sends
\* exactly one failure text and exits: no history fetch, no result text, no
\* photo, no artifact file.
C2_FatalPath ==
    FatalInput(js) =>
        /\ pc \notin {"start", "parse"} =>
             /\ pc = "done"
             /\ Len(SelectSeq(sent, LAMBDA m : m.kind \in FailureKinds)) = 1
        /\ \A k \in 1..Len(sent) : sent[k].kind \notin {"universe", "none", "list"}
        /\ fetches = 0 /\ verdicts = << >>
        /\ photos = << >>
        /\ files = {}

\* C3: for every decoded payload that matches neither envelope shape,
\* fetch_twse_table returns None and the schema-not-found message instead of
\* raising, and the run ends through the fatal-failure path.
C3_SchemaNotFound ==
    (pc # "start" /\ MatchesNeither(js)) =>
        (pc = "done" /\ err = "schema" /\ ~df_raw.some)

\* C8: a failed artifact write is caught and never ends the run.
C8_WritesNeverFatal == failedWrites # {} => pc # "crashed"

ResultNotices == SelectSeq(sent, LAMBDA m : m.kind \in {"none", "list"})

\* C9: a run whose universe is built sends exactly one result text, after
\* the last member is evaluated: "no candidates" when no member passed,
\* the list otherwise; photos go only with the list, at most the cap.
C9_OneResult ==
    UniverseBuilt =>
        /\ pc \in {"loop", "report"} => (ResultNotices = << >> /\ photos = << >>)
        /\ pc \in {"write", "done", "crashed"} =>
             /\ Len(verdicts) = Len(df_top)
             /\ Len(ResultNotices) = 1
             /\ sent[Len(sent)] = ResultNotices[1]
             /\ (ResultNotices[1].kind = "none") =
                    (\A k \in 1..Len(verdicts) : ~verdicts[k].passed)
             /\ ResultNotices[1].kind = "list" => ResultNotices[1].n = Len(strong)
             /\ photos # << >> => ResultNotices[1].kind = "list"
             /\ Len(photos) <= PhotoCap
             /\ photos = SubSeq(charts, 1, Len(photos))

\* More members passed with a chart than the cap, and the cap was sent.
C9_Witness ==
    /\ pc = "done" /\ UniverseBuilt
    /\ Len(charts) > PhotoCap
    /\ Len(photos) = PhotoCap
    /\ Len(ResultNotices) = 1

\* ------------------------------------------------ claims: the cell parsers

\* The cell holds a number: thousands separators and outer blanks aside, it
\* is an optional sign and digits.
HoldsNumber(x) == PyFloat(Replace(x, << "," >>, << >>)).ok

\* C7: cell normalisation is total with distinct defaults: a volume cell
\* that holds no number (malformed text, the no-trade placeholder "--")
\* becomes 0.0, and a close-price cell that holds no number becomes NaN,
\* never 0.
C7_DistinctDefaults ==
    (cpc = "done" /\ ~HoldsNumber(cell)) => (num = Num(0) /\ price = NaN)

\* C10: every Instrument of the universe has volume_shares >= 0, whatever
\* the raw volume cells hold.
C10_VolumeNonNegative ==
    upc = "done" => \A k \in 1..Len(uni) : uni[k].vol.val >= 0

\* ------------------------------------------- claims: the universe builder

RECURSIVE InsertDesc(_, _)
\* r placed behind every row whose volume is at least r's.
InsertDesc(s, r) ==
    IF s = << >> THEN << r >>
    ELSE IF Head(s).vol.val >= r.vol.val THEN << Head(s) >> \o InsertDesc(Tail(s), r)
         ELSE << r >> \o s

RECURSIVE StableDesc(_)
\* The rows by volume descending, rows of equal volume in their given order.
StableDesc(s) ==
    IF s = << >> THEN << >>
    ELSE InsertDesc(StableDesc(SubSeq(s, 1, Len(s) - 1)), s[Len(s)])

\* C6: the universe is the first min(N, k) of the k post-exclusion rows
\* sorted by volume descending with ties in table order; so it has at most N
\* members, non-increasing volumes and no excluded name.
C6_StableTopN ==
    upc = "done" =>
        LET want == Head300(StableDesc(PostExclusion(raw)))
        IN  /\ Len(uni) <= TopN
            /\ IsDescending(uni)
            /\ \A k \in 1..Len(uni) : ~Excluded(uni[k].name)
            /\ uni = [k \in 1..Len(want) |-> WithLots(want[k])]

\* ------------------------------------------------- claims: the evaluator

Delivered(r) == ~r.raises /\ ~r.none

ValidBars(r) == Len(DropNaClose(r.bars))

\* C4 as claimed: every delivered series with fewer than 10 bars left after
\* the bars without a close are dropped gets passed = false and the reason
\* "short-history", an empty series and one without a volume field included.
C4_ShortHistoryAlways ==
    (epc = "done" /\ Delivered(resp) /\ ValidBars(resp) < MinBars)
        => (~verdict.passed /\ IsTag(verdict, "short-history"))

\* C4 as amended: every delivered series that is not empty and has both a
\* close and a volume field, with fewer than 10 bars left after the bars
\* without a close are dropped, gets passed = false and the reason
\* "short-history", whatever the five conditions are on it.
C4_ShortHistory ==
    (epc = "done" /\ Delivered(resp) /\ resp.bars # << >> /\ resp.hasClose
        /\ resp.hasVolume /\ ValidBars(resp) < MinBars)
        => (~verdict.passed /\ IsTag(verdict, "short-history"))

\* Eleven bars delivered, nine of them with a close, on which all five
\* conditions hold: the verdict is still short-history.
C4_Witness ==
    /\ epc = "done" /\ Delivered(resp) /\ resp.hasClose /\ resp.hasVolume
    /\ Len(resp.bars) = MinBars + 1
    /\ ValidBars(resp) = MinBars - 1
    /\ Passed(Conditions(DropNaClose(resp.bars)))
    /\ ~verdict.passed
    /\ IsTag(verdict, "short-history")

FullyEvaluated ==
    /\ epc = "done" /\ Delivered(resp) /\ resp.hasClose /\ resp.hasVolume
    /\ ValidBars(resp) >= MinBars

FlagNames ==
    {"cond_vols_up", "cond_yesterday_vs_ma5", "cond_close_above_ma5",
     "cond_close_new10", "cond_pct"}

\* C5: on a series with at least 10 valid bars and a volume field, passed is
\* true exactly when all five conditions are, and the reason is a record
\* with each of the five booleans; one false condition makes passed false.
C5_AllFive ==
    FullyEvaluated =>
        /\ verdict.rkind = "dict"
        /\ FlagNames \subseteq DOMAIN verdict.reason
        /\ \A f \in FlagNames : verdict.reason[f] \in BOOLEAN
        /\ verdict.passed = (\A f \in FlagNames : verdict.reason[f])
        /\ \A f \in FlagNames : ~verdict.reason[f] => ~verdict.passed

\* The near-high condition alone is false, and the verdict is a fail.
C5_Witness ==
    /\ FullyEvaluated
    /\ verdict.rkind = "dict"
    /\ ~verdict.reason.cond_close_new10
    /\ \A f \in FlagNames \ {"cond_close_new10"} : verdict.reason[f]
    /\ ~verdict.passed

====
